---- MODULE Spec2Model ----
(***************************************************************************)
(* Model of the run tracker's client core:                                 *)
(*   - OfflineQueue   (lib/offline-queue.ts, src/unnamed/part_004)         *)
(*   - LocationService (lib/location.ts,     src/unnamed/part_005)         *)
(*   - ActiveRunScreen (src/app/activeRun.tsx, lines 872..)                *)
(* Every `await` of the source is a point where other callbacks of the     *)
(* event loop may run; the code between two awaits is one atomic action.   *)
(***************************************************************************)
EXTENDS Integers, Sequences, FiniteSets, TLC

(***************************************************************************)
(* Bounds of the model.                                                    *)
(***************************************************************************)
MaxItems == 2
MaxPasses == 2
MaxPrior == 1
TickSeconds == 10
MaxTime == 21
MaxTaps == 4
MaxSamples == 2
MaxSaves == 1
MaxFeeds == 3
MaxClears == 1

(***************************************************************************)
(* Program constants.                                                      *)
(***************************************************************************)
MaxRetries == 3

\* storage.getItem resolves to null when the key was never written
NoValue == [has |-> FALSE, items |-> <<>>]

VARIABLES
  \* ---- OfflineQueue ----
  online,        \* connectivity of the device (Network / navigator.onLine)
  platform,      \* Platform.OS: "web" or "native"
  objs,          \* heap of QueuedAction objects: <<[id, retryCount], ...>>
  queue,         \* this.queue: sequence of references into objs
  stored,        \* storage['offline_queue']: NoValue or the serialized queue
  isProcessing,  \* this.isProcessing
  initPc,        \* position of initialize(): "notStarted", "loading", "done"
  initRead,      \* the value storage.getItem resolved to (read when issued)
  monitoring,    \* startNetworkMonitoring has run (listener / interval set)
  pendingAdd,    \* addToQueue calls awaiting their saveQueue
  nextId,        \* next fresh action id
  awaiting,      \* processQueue calls awaiting isOnline() (line 103)
  pass,          \* processQueue calls past line 109: [Passes -> record]
  clearing,      \* clearQueue calls awaiting their saveQueue
  \* ---- history (not program state) ----
  attempts,      \* id -> number of executeAction calls made for it (counted up to
                 \* MaxRetries + 1, and only in the scenario where every call fails)
  cleared        \* the clearQueue calls made (count), the ids queued when the pending
                 \* one was made (pendingIds) and when the returned ones were (ids)

\* clearQueue's own variables
cvars == <<clearing, cleared>>
qvars == <<online, platform, objs, queue, stored, isProcessing, initPc, initRead,
           monitoring, pendingAdd, nextId, awaiting, pass, attempts, cvars>>

VARIABLES
  \* ---- environment ----
  now,               \* Date.now(), in seconds
  available,         \* the location provider is enabled and permitted
  \* ---- LocationService ----
  watching,          \* watchId / webWatchId holds a live position subscription
  leaked,            \* live position subscriptions that no field refers to
  starting,          \* startTracking calls awaiting watchPositionAsync
  resuming,          \* startTrackingInternal calls awaiting watchPositionAsync
  isTracking,        \* this.isTracking
  lastLocation,      \* this.lastLocation
  startTime,         \* this.startTime
  runStats,          \* this.runStats
  coordinates,       \* this.coordinates
  speedHistory,      \* this.speedHistory
  \* ---- ActiveRunScreen ----
  mounted,           \* the screen is on the navigation stack
  isRunning,         \* useState isRunning
  isPaused,          \* useState isPaused
  startTimeRef,      \* startTimeRef.current
  pausedTimeRef,     \* pausedTimeRef.current
  updateIntervalRef, \* updateIntervalRef.current: "null", or the kind of timer it holds
  timers,            \* live setInterval timers of the screen, by kind
  screenStats,       \* useState runStats of the screen
  saving,            \* saveRunAndFinish calls awaiting the insert: their dbRunData
  runs,              \* rows of the backend table 'runs'
  \* ---- history (not program state) ----
  taps,              \* number of toggleRunning calls made
  delivered,         \* number of position samples delivered
  activeTime,        \* seconds elapsed since the start while the session was not paused
  pauseCalled,       \* pauseTracking has been called
  stopCalled,        \* stopTracking has been called on a started session
  offlineFinish,     \* a run above the save thresholds was finished while offline
  gap                \* the sample that was the previous one when the session was last
                     \* paused (from) and the first one applied after the resume (to)

svars == <<watching, leaked, starting, resuming, isTracking, lastLocation, startTime,
           runStats, coordinates, speedHistory>>
uvars == <<mounted, isRunning, isPaused, startTimeRef, pausedTimeRef, updateIntervalRef,
           timers, screenStats, saving, runs>>
hvars == <<taps, delivered, activeTime, pauseCalled, stopCalled, offlineFinish, gap>>
rvars == <<now, available, svars, uvars, hvars>>
\* the queue's variables that the run screen never writes
qrest == <<objs, queue, stored, isProcessing, initPc, initRead, monitoring, pendingAdd,
           nextId, awaiting, pass, attempts, cvars>>
vars == <<qvars, rvars>>

Passes == 1..MaxPasses
Ids == 1..MaxItems

(***************************************************************************)
(* Pure helpers.                                                           *)
(***************************************************************************)
RECURSIVE Filter(_, _, _)
\* Array.prototype.filter with the predicate "id not in the set rm"
Filter(s, heap, rm) ==
  IF s = <<>> THEN <<>>
  ELSE (IF heap[Head(s)].id \in rm THEN <<>> ELSE <<Head(s)>>)
       \o Filter(Tail(s), heap, rm)

\* JSON.stringify(this.queue): a deep copy of the items' values
Serialize(s, heap) == [has |-> TRUE, items |-> [i \in 1..Len(s) |-> heap[s[i]]]]

\* JSON.parse(savedQueue): fresh objects appended to the heap
ParsedHeap(heap, value) == heap \o value.items
ParsedRefs(heap, value) == [i \in 1..Len(value.items) |-> Len(heap) + i]

IdsOf(s, heap) == {heap[s[i]].id : i \in 1..Len(s)}
StoredIds == {stored.items[i].id : i \in 1..Len(stored.items)}

IdlePass == [pc |-> "idle", alias |-> FALSE, arr |-> <<>>, idx |-> 0,
             processedItems |-> {}, failedItems |-> {}, log |-> <<>>]

\* the array a processQueue loop iterates: this.queue as long as nobody has
\* reassigned this.queue since the loop began, else the array it began with
ArrayOf(p) == IF pass[p].alias THEN queue ELSE pass[p].arr

\* every loop still iterating the old this.queue keeps that (now detached) array
Detach(ps, old) ==
  [p \in Passes |-> IF ps[p].alias THEN [ps[p] EXCEPT !.alias = FALSE, !.arr = old]
                    ELSE ps[p]]

\* objects no array refers to any more cannot be observed again: their
\* retryCount is forgotten (a garbage collection, so that states that differ
\* only in dead objects are one state)
Live(q, ps) ==
  {q[i] : i \in 1..Len(q)} \cup
  UNION {{ps[p].arr[i] : i \in 1..Len(ps[p].arr)} : p \in Passes}
Collect(heap, q, ps) ==
  [i \in 1..Len(heap) |->
     IF i \in Live(q, ps) THEN heap[i] ELSE [heap[i] EXCEPT !.retryCount = 0]]

\* what storage can hold when the process starts: nothing, or the queue a
\* previous process saved (ids 1..n, retryCount below MaxRetries)
PriorQueues ==
  UNION {{q \in [1..n -> [id : 1..MaxPrior, retryCount : 0..(MaxRetries - 1)]] :
            \A i \in 1..n : q[i].id = i}
         : n \in 0..MaxPrior}
PriorStored == {NoValue} \cup {[has |-> TRUE, items |-> q] : q \in PriorQueues}

\* no clearQueue call has been made
NoClears == [count |-> 0, pendingIds |-> {}, ids |-> {}]

QInit ==
  /\ online \in BOOLEAN
  /\ platform \in {"web", "native"}
  /\ objs = <<>>
  /\ queue = <<>>
  /\ stored \in PriorStored
  /\ isProcessing = FALSE
  /\ initPc = "notStarted"
  /\ initRead = NoValue
  /\ monitoring = FALSE
  /\ pendingAdd = 0
  /\ nextId = Len(stored.items) + 1
  /\ awaiting = 0
  /\ pass = [p \in Passes |-> IdlePass]
  /\ attempts = [i \in Ids |-> 0]
  /\ clearing = 0
  /\ cleared = NoClears

(***************************************************************************)
(* OfflineQueue.processQueue                                               *)
(***************************************************************************)
\* line 101: the re-entrancy / empty guard, evaluated when processQueue is called
Guarded(ip, q) == ip \/ Len(q) = 0

Running(ps) == {p \in Passes : ps[p].pc # "idle"}
FreePass(ps) ==
  CHOOSE p \in Passes : ps[p].pc = "idle" /\ \A q \in Passes : q < p => ps[q].pc # "idle"

\* the model holds at most MaxPasses processQueue calls at a time
CanCall(q) ==
  Guarded(isProcessing, q) \/ awaiting + Cardinality(Running(pass)) < MaxPasses

\* processQueue() up to its first await (lines 100-103): the number of calls
\* awaiting isOnline() afterwards
ProcessQueueCall(q) == IF Guarded(isProcessing, q) THEN awaiting ELSE awaiting + 1

\* line 127: the item is given up
ShouldDropOffByOne(rc) == rc > MaxRetries
ShouldDrop(rc) == rc >= MaxRetries

\* lines 116-134: the loop goes on after a resolved execution, and breaks after a
\* rejected one
ContinueAfterNoBreak(ok) == TRUE
ContinueAfter(ok) == ok

\* lines 137-140: filter this.queue, saveQueue() (the value is serialized when
\* saveQueue is called), then await the write. The array is not read again.
FinishLoop(p, rec, heap) ==
  LET rm == rec.processedItems \cup rec.failedItems
      newq == Filter(queue, heap, rm)
  IN /\ queue' = newq
     /\ stored' = Serialize(newq, heap)
     /\ pass' = [Detach(pass, queue) EXCEPT
                   ![p] = [rec EXCEPT !.pc = "saving", !.alias = FALSE, !.arr = <<>>]]
     /\ objs' = Collect(heap, newq, pass')
     /\ UNCHANGED attempts

\* line 115: the array iterator's next(); then executeAction(item) is called
LoopFrom(p, rec, heap, counting) ==
  LET a == IF rec.alias THEN queue ELSE rec.arr
  IN IF rec.idx < Len(a)
       THEN LET id == heap[a[rec.idx + 1]].id
            IN /\ pass' = [pass EXCEPT ![p] =
                             [rec EXCEPT !.pc = "executing", !.idx = @ + 1,
                                         !.log = Append(@, [id |-> id, result |-> "pending"])]]
               /\ attempts' = IF counting /\ attempts[id] <= MaxRetries
                                THEN [attempts EXCEPT ![id] = @ + 1]
                                ELSE attempts
               /\ objs' = heap
               /\ UNCHANGED <<queue, stored>>
       ELSE FinishLoop(p, rec, heap)

\* the same without the test of the connectivity
OnlineCheckedAlways(counting) ==
  /\ awaiting > 0
  /\ awaiting' = awaiting - 1
  /\ isProcessing' = TRUE
  /\ LoopFrom(FreePass(pass), [IdlePass EXCEPT !.alias = TRUE], objs, counting)
  /\ UNCHANGED <<rvars, cvars>>
  /\ UNCHANGED <<online, platform, initPc, initRead, monitoring, pendingAdd, nextId>>

\* lines 103-115: isOnline() has resolved
OnlineChecked(counting) ==
  /\ awaiting > 0
  /\ awaiting' = awaiting - 1
  /\ IF ~online
       THEN UNCHANGED <<objs, queue, stored, isProcessing, pass, attempts>>
       ELSE /\ isProcessing' = TRUE
            /\ LoopFrom(FreePass(pass), [IdlePass EXCEPT !.alias = TRUE], objs, counting)
  /\ UNCHANGED <<rvars, cvars>>
  /\ UNCHANGED <<online, platform, initPc, initRead, monitoring, pendingAdd, nextId>>

\* lines 116-135: executeAction(item) has resolved (ok) or rejected (~ok)
ExecDone(p, ok, counting) ==
  /\ pass[p].pc = "executing"
  /\ ok => online
  /\ LET ref == ArrayOf(p)[pass[p].idx]
         id == objs[ref].id
         heap == IF ok THEN objs ELSE [objs EXCEPT ![ref].retryCount = @ + 1]
         drop == ~ok /\ ShouldDrop(heap[ref].retryCount)
         rec == [pass[p] EXCEPT
                   !.processedItems = IF ok THEN @ \cup {id} ELSE @,
                   !.failedItems = IF drop THEN @ \cup {id} ELSE @,
                   !.log = [@ EXCEPT ![Len(@)].result = IF ok THEN "ok" ELSE "fail"]]
     IN IF ContinueAfter(ok) THEN LoopFrom(p, rec, heap, counting)
        ELSE FinishLoop(p, rec, heap)
  /\ UNCHANGED <<rvars, cvars>>
  /\ UNCHANGED <<online, platform, isProcessing, initPc, initRead, monitoring,
                 pendingAdd, nextId, awaiting>>

\* the same without line 143
SaveDoneKeepsFlag(p) ==
  /\ pass[p].pc = "saving"
  /\ pass' = [pass EXCEPT ![p] = IdlePass]
  /\ UNCHANGED <<rvars, cvars>>
  /\ UNCHANGED <<online, platform, objs, queue, stored, isProcessing, initPc, initRead,
                 monitoring, pendingAdd, nextId, awaiting, attempts>>

\* lines 140-143: saveQueue() has resolved
SaveDone(p) ==
  /\ pass[p].pc = "saving"
  /\ isProcessing' = FALSE
  /\ pass' = [pass EXCEPT ![p] = IdlePass]
  /\ UNCHANGED <<rvars, cvars>>
  /\ UNCHANGED <<online, platform, objs, queue, stored, initPc, initRead, monitoring,
                 pendingAdd, nextId, awaiting, attempts>>

(***************************************************************************)
(* OfflineQueue.initialize / startNetworkMonitoring                        *)
(***************************************************************************)
\* lines 18-23: storage.getItem is issued (app/_layout.tsx calls initialize once)
InitializeStart ==
  /\ initPc = "notStarted"
  /\ initPc' = "loading"
  /\ initRead' = stored
  /\ UNCHANGED <<rvars, cvars>>
  /\ UNCHANGED <<online, platform, objs, queue, stored, isProcessing, monitoring,
                 pendingAdd, nextId, awaiting, pass, attempts>>

\* lines 24-34: getItem has resolved; a non-null value replaces this.queue
InitializeLoaded ==
  /\ initPc = "loading"
  /\ initPc' = "done"
  /\ initRead' = NoValue
  /\ IF initRead # NoValue
       THEN /\ queue' = ParsedRefs(objs, initRead)
            /\ pass' = Detach(pass, queue)
            /\ objs' = Collect(ParsedHeap(objs, initRead), queue', pass')
       ELSE UNCHANGED <<objs, queue, pass>>
  /\ monitoring' = TRUE
  /\ UNCHANGED <<rvars, cvars>>
  /\ UNCHANGED <<online, platform, stored, isProcessing, pendingAdd, nextId, awaiting,
                 attempts>>

\* lines 48-57: the 5 s interval fires and the network state resolves
TimerFire ==
  /\ platform = "native"
  /\ monitoring
  /\ online /\ Len(queue) > 0
  /\ CanCall(queue)
  /\ awaiting' = ProcessQueueCall(queue)
  /\ UNCHANGED <<rvars, cvars>>
  /\ UNCHANGED <<online, platform, objs, queue, stored, isProcessing, initPc, initRead,
                 monitoring, pendingAdd, nextId, pass, attempts>>

\* connectivity returns; on web the 'online' listener (lines 40-45) runs
GoOnline ==
  /\ ~online
  /\ online' = TRUE
  /\ IF platform = "web" /\ monitoring
       THEN CanCall(queue) /\ awaiting' = ProcessQueueCall(queue)
       ELSE awaiting' = awaiting
  /\ UNCHANGED <<rvars, cvars>>
  /\ UNCHANGED <<platform, objs, queue, stored, isProcessing, initPc, initRead,
                 monitoring, pendingAdd, nextId, pass, attempts>>

GoOffline ==
  /\ online
  /\ online' = FALSE
  /\ UNCHANGED <<rvars, cvars>>
  /\ UNCHANGED <<platform, objs, queue, stored, isProcessing, initPc, initRead,
                 monitoring, pendingAdd, nextId, awaiting, pass, attempts>>

(***************************************************************************)
(* OfflineQueue.addToQueue / saveQueue                                     *)
(***************************************************************************)
\* lines 61-71: push, then saveQueue() serializes this.queue and awaits the write
\* (the root layout calls initialize when it mounts, app/_layout.tsx:21-23: no
\* caller enqueues before that call)
AddToQueue ==
  /\ initPc # "notStarted"
  /\ nextId <= MaxItems
  /\ objs' = Append(objs, [id |-> nextId, retryCount |-> 0])
  /\ queue' = Append(queue, Len(objs) + 1)
  /\ stored' = Serialize(queue', objs')
  /\ pendingAdd' = pendingAdd + 1
  /\ nextId' = nextId + 1
  /\ UNCHANGED <<rvars, cvars>>
  /\ UNCHANGED <<online, platform, isProcessing, initPc, initRead, monitoring,
                 awaiting, pass, attempts>>

\* lines 72-75: the write has resolved; processQueue() is called
AddToQueueResume ==
  /\ pendingAdd > 0
  /\ pendingAdd' = pendingAdd - 1
  /\ CanCall(queue)
  /\ awaiting' = ProcessQueueCall(queue)
  /\ UNCHANGED <<rvars, cvars>>
  /\ UNCHANGED <<online, platform, objs, queue, stored, isProcessing, initPc, initRead,
                 monitoring, nextId, pass, attempts>>

\* lines 196-198: clearQueue() replaces this.queue by a new empty array, then
\* saveQueue() serializes it and awaits the write
ClearQueueCall ==
  /\ initPc = "done"
  /\ clearing = 0
  /\ cleared.count < MaxClears
  /\ clearing' = clearing + 1
  /\ cleared' = [cleared EXCEPT !.count = @ + 1, !.pendingIds = IdsOf(queue, objs)]
  /\ queue' = <<>>
  /\ stored' = Serialize(<<>>, objs)
  /\ pass' = Detach(pass, queue)
  /\ objs' = Collect(objs, <<>>, pass')
  /\ UNCHANGED rvars
  /\ UNCHANGED <<online, platform, isProcessing, initPc, initRead, monitoring,
                 pendingAdd, nextId, awaiting, attempts>>

\* lines 198-200: the write has resolved and clearQueue returns
ClearQueueDone ==
  /\ clearing > 0
  /\ clearing' = clearing - 1
  /\ cleared' = [cleared EXCEPT !.ids = @ \cup cleared.pendingIds, !.pendingIds = {}]
  /\ UNCHANGED rvars
  /\ UNCHANGED <<online, platform, objs, queue, stored, isProcessing, initPc, initRead,
                 monitoring, pendingAdd, nextId, awaiting, pass, attempts>>

QEnv ==
  \/ InitializeStart
  \/ InitializeLoaded
  \/ TimerFire
  \/ GoOnline
  \/ GoOffline
  \/ AddToQueue
  \/ AddToQueueResume
  \/ \E p \in Passes : SaveDone(p)

QNext ==
  \/ QEnv
  \/ OnlineChecked(FALSE)
  \/ \E p \in Passes, ok \in BOOLEAN : ExecDone(p, ok, FALSE)

\* the scenario "every execution attempt fails", with the attempts counted
QNextAllFail ==
  \/ QEnv
  \/ OnlineChecked(TRUE)
  \/ \E p \in Passes : ExecDone(p, FALSE, TRUE)

(***************************************************************************)
(* LocationService (src/unnamed/part_005).                                 *)
(* Distances are in metres (the source's kilometres x 1000), speeds in     *)
(* thousandths of km/h, GPS speeds in cm/s, times in seconds.              *)
(***************************************************************************)
\* the null of a nullable field
Null == -1

MinStep == 1              \* distanceIncrement > 0.001 km
MaxStep == 50             \* distanceIncrement < 0.05 km
GpsSpeedMax == 1000       \* location.speed < 10 m/s
SpeedLimit == 30000       \* currentSpeed < 30 km/h
MinRecordedSpeed == 500   \* currentSpeed > 0.5 km/h
MaxElevationStep == 10    \* elevationDiff < 10 m
MaxDuration == 86400      \* cap of 24 hours
HistoryLen == 50          \* speedHistory.slice(-50)
CaloriesPerKm == 65
MinSaveDistance == 10     \* runData.distance < 0.01 km
MinSaveDuration == 10     \* runData.duration < 10 s
MinFinishDuration == 5    \* runStats.duration < 5 s

\* JavaScript truthiness of a nullable number
Truthy(x) == x # Null /\ x # 0

NoLocation == [has |-> FALSE, pos |-> 0, speed |-> Null, altitude |-> Null, timestamp |-> 0]

\* no pause has been made since the data was reset
NoGap == [from |-> NoLocation, to |-> NoLocation]

\* the object literal of resetTrackingData and of the field initialisers
ZeroStats == [distance |-> 0, speed |-> 0, maxSpeed |-> 0, avgSpeed |-> 0,
              elevationGain |-> 0, duration |-> 0,
              pace |-> [minutes |-> 0, seconds |-> 0], calories |-> 0]

\* getDistance for two points of one meridian: the length of the arc between them
GetDistance(a, b) == IF a.pos >= b.pos THEN a.pos - b.pos ELSE b.pos - a.pos

RECURSIVE Sum(_)
Sum(s) == IF s = <<>> THEN 0 ELSE Head(s) + Sum(Tail(s))

Min(a, b) == IF a <= b THEN a ELSE b
Max(a, b) == IF a >= b THEN a ELSE b
\* Math.round(n / d) for n >= 0, d > 0
Round(n, d) == (2 * n + d) \div (2 * d)

\* lines 249-252: the distance added by a sample
DistanceAdded(tracking, inc) ==
  IF tracking /\ inc > MinStep /\ inc < MaxStep THEN inc ELSE 0

\* lines 255-265: the speed of a sample
CurrentSpeed(tracking, last, loc, inc) ==
  LET timeDiff == loc.timestamp - last.timestamp
  IN IF tracking /\ loc.speed # Null /\ loc.speed > 0 /\ loc.speed < GpsSpeedMax
       THEN loc.speed * 36
       ELSE IF tracking /\ timeDiff > 0 /\ inc > MinStep
              THEN (inc * 3600) \div timeDiff
              ELSE 0

\* the same keeping the first 50 readings
PushedOldest(h, v) ==
  LET a == Append(h, v)
  IN IF Len(a) > HistoryLen THEN SubSeq(a, 1, HistoryLen) ELSE a

\* lines 274-277: push and keep the last 50 readings
Pushed(h, v) ==
  LET a == Append(h, v)
  IN IF Len(a) > HistoryLen THEN SubSeq(a, Len(a) - HistoryLen + 1, Len(a)) ELSE a

\* lines 271-279
HistoryAfter(h, v) ==
  IF v >= 0 /\ v < SpeedLimit /\ v > MinRecordedSpeed THEN Pushed(h, v) ELSE h

\* the same with maxSpeed set to the speed of the sample
SpeedStatsLatest(st, h, v) ==
  IF v >= 0 /\ v < SpeedLimit
    THEN [st EXCEPT !.speed = v, !.maxSpeed = v]
    ELSE st

\* lines 268-289: speed, maxSpeed and avgSpeed after a sample of speed v
SpeedStats(st, h, v) ==
  IF v >= 0 /\ v < SpeedLimit
    THEN [st EXCEPT !.speed = v,
                    !.maxSpeed = IF v > @ THEN v ELSE @,
                    !.avgSpeed = IF Len(HistoryAfter(h, v)) > 0
                                   THEN Sum(HistoryAfter(h, v)) \div Len(HistoryAfter(h, v))
                                   ELSE @]
    ELSE st

\* lines 291-297
ElevationAdded(tracking, last, loc) ==
  IF Truthy(loc.altitude) /\ Truthy(last.altitude)
       /\ tracking /\ loc.altitude - last.altitude > 0
       /\ loc.altitude - last.altitude < MaxElevationStep
    THEN loc.altitude - last.altitude
    ELSE 0

\* lines 300-307
DurationAt(st, start, t) ==
  IF Truthy(start) THEN Min(t - start, MaxDuration) ELSE st.duration

\* lines 309-318
PaceOf(avg) ==
  IF avg > 0
    THEN LET minutes == Min(59, Max(0, 60000 \div avg))
         IN [minutes |-> minutes,
             seconds |-> Min(59, Max(0, Round(3600000, avg) - 60 * minutes))]
    ELSE [minutes |-> 0, seconds |-> 0]

\* lines 320-324
CaloriesOf(st) ==
  IF st.duration > 0 THEN Round(st.distance * CaloriesPerKm, 1000) ELSE st.calories

\* lines 241-332: this.runStats after updateRunStats(loc) at time t
UpdateRunStats(st, h, last, start, tracking, loc, t) ==
  LET inc == GetDistance(last, loc)
      s1 == IF last.has
              THEN [SpeedStats(st, h, CurrentSpeed(tracking, last, loc, inc)) EXCEPT
                      !.distance = @ + DistanceAdded(tracking, inc),
                      !.elevationGain = @ + ElevationAdded(tracking, last, loc)]
              ELSE st
      s2 == [s1 EXCEPT !.duration = DurationAt(s1, start, t)]
      s3 == [s2 EXCEPT !.pace = PaceOf(s2.avgSpeed)]
  IN [s3 EXCEPT !.calories = CaloriesOf(s3)]

\* lines 271-279 within updateRunStats: this.speedHistory after the sample
UpdateSpeedHistory(h, last, tracking, loc) ==
  IF last.has
    THEN HistoryAfter(h, CurrentSpeed(tracking, last, loc, GetDistance(last, loc)))
    ELSE h

(***************************************************************************)
(* ActiveRunScreen (src/app/activeRun.tsx, lines 872..): timers and the    *)
(* effect that depends on isRunning.                                       *)
(***************************************************************************)
NoTimers == [duration |-> 0, pause |-> 0]

\* clearInterval(updateIntervalRef.current) on a state [timers, ref]
ClearInterval(s) ==
  IF s.ref \in {"duration", "pause"}
    THEN [timers |-> [s.timers EXCEPT ![s.ref] = @ - 1], ref |-> "cleared"]
    ELSE s

\* lines 969-974: the cleanup of the effect
EffectCleanup(s) == IF s.ref # "null" THEN [ClearInterval(s) EXCEPT !.ref = "null"] ELSE s

\* lines 953-967: the body of the effect, run with the new value of isRunning
EffectBody(s, running) ==
  IF running
    THEN [timers |-> [s.timers EXCEPT !.duration = @ + 1], ref |-> "duration"]
    ELSE EffectCleanup(s)

\* the commit after a handler that leaves the screen's timers as s and sets isRunning
\* to running: React re-runs the effect only when its dependency has changed
Render(s, running) ==
  IF running = isRunning THEN s ELSE EffectBody(EffectCleanup(s), running)

ScreenTimers == [timers |-> timers, ref |-> updateIntervalRef]

\* lines 1069-1071, 1103-1105: setIsRunning(true); setIsPaused(false), from timers s
SetRunning(s) ==
  /\ isRunning' = TRUE
  /\ isPaused' = FALSE
  /\ timers' = Render(s, TRUE).timers
  /\ updateIntervalRef' = Render(s, TRUE).ref

\* router.back(): the screen unmounts and the cleanups of lines 944-949 and 969-974 run
\* (the stopTracking call of line 945 is part of every action that uses RouterBack)
RouterBack ==
  /\ mounted' = FALSE
  /\ timers' = EffectCleanup(ScreenTimers).timers
  /\ updateIntervalRef' = EffectCleanup(ScreenTimers).ref
  /\ UNCHANGED <<isRunning, isPaused, startTimeRef, pausedTimeRef, screenStats>>

(***************************************************************************)
(* LocationService: the session as its fields show it.                     *)
(***************************************************************************)
SessionState ==
  CASE isTracking -> "Active"
    [] ~isTracking /\ stopCalled -> "Stopped"
    [] ~isTracking /\ ~stopCalled /\ pauseCalled -> "Paused"
    [] OTHER -> "Idle"

\* lines 438-449 (stopTracking) and 350-361 (pauseTracking): the subscription the
\* field refers to is removed and the flag is cleared
Unsubscribe ==
  /\ watching' = FALSE
  /\ isTracking' = FALSE
  /\ UNCHANGED <<leaked, starting, resuming, lastLocation, startTime, runStats,
                 coordinates, speedHistory>>

\* stopTracking if it also reset the data
StopTrackingAndReset ==
  /\ watching' = FALSE
  /\ isTracking' = FALSE
  /\ runStats' = ZeroStats
  /\ coordinates' = <<>>
  /\ speedHistory' = <<>>
  /\ lastLocation' = NoLocation
  /\ UNCHANGED <<leaked, starting, resuming, startTime>>
  /\ stopCalled' = (stopCalled \/ isTracking \/ pauseCalled)

\* lines 438-449: stopTracking
StopTracking ==
  /\ Unsubscribe
  /\ stopCalled' = (stopCalled \/ isTracking \/ pauseCalled)

\* lines 196-231, 410-431: watchPositionAsync has resolved and its subscription is
\* stored in watchId (lines 165-190, 377-405 on web: watchPosition, webWatchId)
Subscribed ==
  /\ watching' = TRUE
  /\ leaked' = IF watching THEN leaked + 1 ELSE leaked
  /\ isTracking' = TRUE

\* the screen has just been opened and initializeActiveRun (activeRun.tsx 978-1012) has
\* obtained the location permission; the service is as constructed (part_005 26-43)
RInit ==
  /\ now = 1
  /\ available = TRUE
  /\ watching = FALSE
  /\ leaked = 0
  /\ starting = 0
  /\ resuming = 0
  /\ isTracking = FALSE
  /\ lastLocation = NoLocation
  /\ startTime = Null
  /\ runStats = ZeroStats
  /\ coordinates = <<>>
  /\ speedHistory = <<>>
  /\ mounted = TRUE
  /\ isRunning = FALSE
  /\ isPaused = FALSE
  /\ startTimeRef = Null
  /\ pausedTimeRef = 0
  /\ updateIntervalRef = "null"
  /\ timers = NoTimers
  /\ screenStats = ZeroStats
  /\ saving = <<>>
  /\ runs = <<>>
  /\ taps = 0
  /\ delivered = 0
  /\ activeTime = 0
  /\ pauseCalled = FALSE
  /\ stopCalled = FALSE
  /\ offlineFinish = FALSE
  /\ gap = NoGap

\* time passes
Tick ==
  /\ now + TickSeconds <= MaxTime
  /\ now' = now + TickSeconds
  /\ activeTime' = IF SessionState = "Paused" THEN activeTime ELSE activeTime + TickSeconds
  /\ UNCHANGED <<online, platform, qrest, available, svars, uvars, taps, delivered,
                 pauseCalled, stopCalled, offlineFinish>>
  /\ UNCHANGED gap

\* toggleRunning, lines 1065-1076, with startTracking (part_005 150-239) up to its
\* first await; on web startTracking completes without one
ToggleStart ==
  /\ mounted /\ ~isRunning /\ ~isPaused
  /\ taps < MaxTaps
  /\ taps' = taps + 1
  /\ startTimeRef' = now
  /\ pausedTimeRef' = 0
  /\ IF isTracking
       THEN /\ SetRunning(ScreenTimers)
            /\ UNCHANGED <<svars, activeTime>>
       ELSE /\ runStats' = ZeroStats
            /\ coordinates' = <<>>
            /\ speedHistory' = <<>>
            /\ lastLocation' = NoLocation
            /\ startTime' = now
            /\ activeTime' = 0
            /\ UNCHANGED resuming
            /\ IF platform = "web"
                 THEN /\ Subscribed
                      /\ SetRunning(ScreenTimers)
                      /\ UNCHANGED starting
                 ELSE /\ starting' = starting + 1
                      /\ UNCHANGED <<watching, leaked, isTracking, isRunning, isPaused,
                                     timers, updateIntervalRef>>
  /\ UNCHANGED <<online, platform, qrest, now, available, mounted, screenStats, saving, runs,
                 delivered, pauseCalled, stopCalled, offlineFinish>>
  /\ gap' = IF isTracking THEN gap ELSE NoGap

\* part_005 196-238 after the await, then toggleRunning lines 1068-1075
StartResolved(ok) ==
  /\ starting > 0
  /\ ok => available
  /\ starting' = starting - 1
  /\ IF ok
       THEN /\ Subscribed
            /\ IF mounted THEN SetRunning(ScreenTimers)
                          ELSE UNCHANGED <<isRunning, isPaused, timers, updateIntervalRef>>
       ELSE /\ isTracking' = FALSE
            /\ UNCHANGED <<watching, leaked, isRunning, isPaused, timers,
                           updateIntervalRef>>
  /\ UNCHANGED <<online, platform, qrest, now, available, resuming, lastLocation, startTime,
                 runStats, coordinates, speedHistory, mounted, startTimeRef,
                 pausedTimeRef, screenStats, saving, runs, hvars>>

\* the pause branch if pauseTracking also cleared the previous-sample pointer
TogglePauseForgetting ==
  /\ mounted /\ isRunning /\ ~isPaused
  /\ taps < MaxTaps
  /\ taps' = taps + 1
  /\ watching' = FALSE
  /\ isTracking' = FALSE
  /\ lastLocation' = NoLocation
  /\ UNCHANGED <<leaked, starting, resuming, startTime, runStats, coordinates,
                 speedHistory>>
  /\ pauseCalled' = TRUE
  /\ isRunning' = FALSE
  /\ isPaused' = TRUE
  /\ LET made == [timers |-> [timers EXCEPT !.pause = @ + 1], ref |-> "pause"]
     IN /\ timers' = Render(made, FALSE).timers
        /\ updateIntervalRef' = Render(made, FALSE).ref
  /\ UNCHANGED <<online, platform, qrest, now, available, mounted, startTimeRef, pausedTimeRef,
                 screenStats, saving, runs, delivered, activeTime, stopCalled,
                 offlineFinish>>
  /\ gap' = [from |-> lastLocation, to |-> NoLocation]

\* toggleRunning, lines 1077-1094, with pauseTracking (part_005 350-361) and the
\* commit that follows
TogglePause ==
  /\ mounted /\ isRunning /\ ~isPaused
  /\ taps < MaxTaps
  /\ taps' = taps + 1
  /\ Unsubscribe
  /\ pauseCalled' = TRUE
  /\ isRunning' = FALSE
  /\ isPaused' = TRUE
  /\ LET made == [timers |-> [timers EXCEPT !.pause = @ + 1], ref |-> "pause"]
     IN /\ timers' = Render(made, FALSE).timers
        /\ updateIntervalRef' = Render(made, FALSE).ref
  /\ UNCHANGED <<online, platform, qrest, now, available, mounted, startTimeRef, pausedTimeRef,
                 screenStats, saving, runs, delivered, activeTime, stopCalled,
                 offlineFinish>>
  /\ gap' = [from |-> lastLocation, to |-> NoLocation]

\* toggleRunning, lines 1096-1108, with startTrackingInternal (part_005 371-436) up
\* to its await; on web it completes without one
ToggleResume ==
  /\ mounted /\ ~isRunning /\ isPaused
  /\ taps < MaxTaps
  /\ taps' = taps + 1
  /\ IF platform = "web"
       THEN /\ Subscribed
            /\ SetRunning(ClearInterval(ScreenTimers))
            /\ UNCHANGED resuming
       ELSE /\ resuming' = resuming + 1
            /\ timers' = ClearInterval(ScreenTimers).timers
            /\ updateIntervalRef' = ClearInterval(ScreenTimers).ref
            /\ UNCHANGED <<watching, leaked, isTracking, isRunning, isPaused>>
  /\ UNCHANGED <<online, platform, qrest, now, available, starting, lastLocation, startTime,
                 runStats, coordinates, speedHistory, mounted, startTimeRef,
                 pausedTimeRef, screenStats, saving, runs, delivered, activeTime,
                 pauseCalled, stopCalled, offlineFinish>>
  /\ UNCHANGED gap

\* part_005 410-435 after the await, then toggleRunning lines 1102-1107
ResumeResolved(ok) ==
  /\ resuming > 0
  /\ ok => available
  /\ resuming' = resuming - 1
  /\ IF ok
       THEN /\ Subscribed
            /\ IF mounted THEN SetRunning(ScreenTimers)
                          ELSE UNCHANGED <<isRunning, isPaused, timers, updateIntervalRef>>
       ELSE UNCHANGED <<watching, leaked, isTracking, isRunning, isPaused, timers,
                        updateIntervalRef>>
  /\ UNCHANGED <<online, platform, qrest, now, available, starting, lastLocation, startTime,
                 runStats, coordinates, speedHistory, mounted, startTimeRef,
                 pausedTimeRef, screenStats, saving, runs, hvars>>

\* the record of the pause after the sample loc has been applied: the first sample
\* applied to the resumed session closes it; a sample applied while the session is
\* still paused replaces the previous-sample pointer, and the record is dropped
GapAfter(loc) ==
  IF gap.from.has /\ ~gap.to.has
    THEN IF isTracking THEN [gap EXCEPT !.to = loc] ELSE NoGap
    ELSE gap

\* the samples a subscription may deliver (positions in metres along a meridian)
Positions == {0, 30}
GpsSpeeds == {Null}
Altitudes == {Null}
Samples ==
  {[has |-> TRUE, pos |-> p, speed |-> s, altitude |-> a, timestamp |-> now] :
     p \in Positions, s \in GpsSpeeds, a \in Altitudes}

\* the callback of a live subscription (part_005 203-219, 412-427): updateRunStats,
\* then locationCallback and statsCallback (activeRun.tsx 1040-1049)
Deliver(loc) ==
  /\ available
  /\ watching \/ leaked > 0
  /\ delivered < MaxSamples
  /\ delivered' = delivered + 1
  /\ coordinates' = Append(coordinates, loc)
  /\ runStats' = UpdateRunStats(runStats, speedHistory, lastLocation, startTime,
                                isTracking, loc, now)
  /\ speedHistory' = UpdateSpeedHistory(speedHistory, lastLocation, isTracking, loc)
  /\ lastLocation' = loc
  /\ screenStats' = IF mounted THEN runStats' ELSE screenStats
  /\ UNCHANGED <<online, platform, qrest, now, available, watching, leaked, starting, resuming,
                 isTracking, startTime, mounted, isRunning, isPaused, startTimeRef,
                 pausedTimeRef, updateIntervalRef, timers, saving, runs, taps,
                 activeTime, pauseCalled, stopCalled, offlineFinish>>
  /\ gap' = GapAfter(loc)

\* lines 955-961: a live duration interval fires
IntervalFire ==
  /\ mounted
  /\ timers.duration > 0
  /\ Truthy(startTimeRef)
  /\ screenStats' = [screenStats EXCEPT !.duration = now - startTimeRef - pausedTimeRef]
  /\ UNCHANGED <<online, platform, qrest, now, available, svars, mounted, isRunning, isPaused,
                 startTimeRef, pausedTimeRef, updateIntervalRef, timers, saving, runs,
                 hvars>>

\* handleFinishRun, lines 1117-1134, with "Yes, Cancel" chosen
FinishTooShort ==
  /\ mounted
  /\ screenStats.duration < MinFinishDuration
  /\ StopTracking
  /\ RouterBack
  /\ UNCHANGED <<online, platform, qrest, now, available, saving, runs, taps, delivered,
                 activeTime, pauseCalled, offlineFinish>>
  /\ UNCHANGED gap

\* handleCancelRun, lines 1150-1170, with "Cancel Run" chosen when it asks
CancelRun ==
  /\ mounted
  /\ StopTracking
  /\ RouterBack
  /\ UNCHANGED <<online, platform, qrest, now, available, saving, runs, taps, delivered,
                 activeTime, pauseCalled, offlineFinish>>
  /\ UNCHANGED gap

\* the row as it would be if built from the screen's copy of the statistics
DbRunDataFromScreen ==
  [distance |-> screenStats.distance, duration |-> screenStats.duration,
   route_coordinates |-> coordinates]

\* lines 1191-1208: the row built from getRunData()
DbRunData ==
  [distance |-> runStats.distance, duration |-> runStats.duration,
   route_coordinates |-> coordinates]

\* handleFinishRun, lines 1136-1147, with "Finish & Save" chosen: saveRunAndFinish,
\* lines 1172-1212, up to the await of the insert (or to the "Run Too Short" alert
\* and its router.back())
FinishAndSave ==
  /\ mounted
  /\ screenStats.duration >= MinFinishDuration
  /\ Len(saving) < MaxSaves
  /\ StopTracking
  /\ IF runStats.distance < MinSaveDistance \/ runStats.duration < MinSaveDuration
       THEN /\ RouterBack
            /\ UNCHANGED <<saving, offlineFinish>>
       ELSE /\ saving' = Append(saving, DbRunData)
            /\ offlineFinish' = (offlineFinish \/ ~online)
            /\ UNCHANGED <<mounted, isRunning, isPaused, startTimeRef, pausedTimeRef,
                           updateIntervalRef, timers, screenStats>>
  /\ UNCHANGED <<online, platform, qrest, now, available, runs, taps, delivered, activeTime,
                 pauseCalled>>
  /\ UNCHANGED gap

\* saveRunAndFinish, lines 1210-1233: the insert has resolved, with a row written (ok)
\* or with an error; then router.back()
InsertDone(ok) ==
  /\ Len(saving) > 0
  /\ ok => online
  /\ saving' = Tail(saving)
  /\ runs' = IF ok THEN Append(runs, Head(saving)) ELSE runs
  /\ IF mounted
       THEN StopTracking /\ RouterBack
       ELSE UNCHANGED <<svars, stopCalled, mounted, isRunning, isPaused, startTimeRef,
                        pausedTimeRef, updateIntervalRef, timers, screenStats>>
  /\ UNCHANGED <<online, platform, qrest, now, available, taps, delivered, activeTime,
                 pauseCalled, offlineFinish>>
  /\ UNCHANGED gap

\* the provider is switched off or on, or the permission is revoked or given
ProviderChange ==
  /\ available' = ~available
  /\ UNCHANGED <<online, platform, qrest, now, svars, uvars, hvars>>

\* router.push('/activeRun') (part_001 958, 1129): a new instance of the screen is
\* mounted (activeRun.tsx 899-923, 942-943) and initializeActiveRun obtains the
\* permission; locationService is the same singleton.  The intervals that an earlier
\* instance left alive can only call the state setters of that instance.
OpenScreen ==
  /\ ~mounted
  /\ available
  /\ mounted' = TRUE
  /\ isRunning' = FALSE
  /\ isPaused' = FALSE
  /\ startTimeRef' = Null
  /\ pausedTimeRef' = 0
  /\ updateIntervalRef' = "null"
  /\ timers' = NoTimers
  /\ screenStats' = ZeroStats
  /\ pauseCalled' = FALSE
  /\ stopCalled' = FALSE
  /\ UNCHANGED <<online, platform, qrest, now, available, svars, saving, runs, taps,
                 delivered, activeTime, offlineFinish>>
  /\ gap' = NoGap

RNext ==
  \/ Tick
  \/ ProviderChange
  \/ OpenScreen
  \/ GoOnline
  \/ GoOffline
  \/ ToggleStart
  \/ \E ok \in BOOLEAN : StartResolved(ok)
  \/ TogglePause
  \/ ToggleResume
  \/ \E ok \in BOOLEAN : ResumeResolved(ok)
  \/ \E loc \in Samples : Deliver(loc)
  \/ IntervalFire
  \/ FinishTooShort
  \/ CancelRun
  \/ FinishAndSave
  \/ \E ok \in BOOLEAN : InsertDone(ok)

(***************************************************************************)
(* The earlier ActiveRunScreen of the same file (src/app/activeRun.tsx,    *)
(* lines 1-871).  Its start branch, its effects, its callbacks and the     *)
(* continuation of its insert are those of the later screen; its pause and *)
(* resume branches, its duration interval and its finish handlers differ.  *)
(***************************************************************************)
\* toggleRunning, lines 221-226, with pauseTracking and the commit that follows
EarlierTogglePause ==
  /\ mounted /\ isRunning /\ ~isPaused
  /\ taps < MaxTaps
  /\ taps' = taps + 1
  /\ Unsubscribe
  /\ pauseCalled' = TRUE
  /\ isRunning' = FALSE
  /\ isPaused' = TRUE
  /\ pausedTimeRef' = pausedTimeRef + (now - (IF Truthy(startTimeRef) THEN startTimeRef ELSE now))
  /\ timers' = Render(ScreenTimers, FALSE).timers
  /\ updateIntervalRef' = Render(ScreenTimers, FALSE).ref
  /\ UNCHANGED <<online, platform, qrest, now, available, mounted, startTimeRef,
                 screenStats, saving, runs, delivered, activeTime, stopCalled,
                 offlineFinish>>
  /\ gap' = [from |-> lastLocation, to |-> NoLocation]

\* toggleRunning, lines 227-236, with startTrackingInternal up to its await
EarlierToggleResume ==
  /\ mounted /\ ~isRunning /\ isPaused
  /\ taps < MaxTaps
  /\ taps' = taps + 1
  /\ startTimeRef' = now - pausedTimeRef
  /\ IF platform = "web"
       THEN /\ Subscribed
            /\ SetRunning(ScreenTimers)
            /\ UNCHANGED resuming
       ELSE /\ resuming' = resuming + 1
            /\ UNCHANGED <<watching, leaked, isTracking, isRunning, isPaused, timers,
                           updateIntervalRef>>
  /\ UNCHANGED <<online, platform, qrest, now, available, starting, lastLocation,
                 startTime, runStats, coordinates, speedHistory, mounted,
                 pausedTimeRef, screenStats, saving, runs, delivered, activeTime,
                 pauseCalled, stopCalled, offlineFinish>>
  /\ UNCHANGED gap

\* lines 95-100: a live duration interval fires
EarlierIntervalFire ==
  /\ mounted
  /\ timers.duration > 0
  /\ Truthy(startTimeRef)
  /\ screenStats' = [screenStats EXCEPT !.duration = now - startTimeRef]
  /\ UNCHANGED <<online, platform, qrest, now, available, svars, mounted, isRunning,
                 isPaused, startTimeRef, pausedTimeRef, updateIntervalRef, timers,
                 saving, runs, hvars>>

\* the header's back button (line 384), or handleFinishRun with a duration of 0
\* (lines 246-250): router.back()
EarlierBack ==
  /\ mounted
  /\ StopTracking
  /\ RouterBack
  /\ UNCHANGED <<online, platform, qrest, now, available, saving, runs, taps, delivered,
                 activeTime, pauseCalled, offlineFinish>>
  /\ UNCHANGED gap

\* handleFinishRun, lines 246-265, with "Finish" chosen: saveRunAndFinish, lines
\* 267-293, up to the await of the insert
EarlierFinishAndSave ==
  /\ mounted
  /\ screenStats.duration # 0
  /\ Len(saving) < MaxSaves
  /\ StopTracking
  /\ saving' = Append(saving, DbRunData)
  /\ offlineFinish' = (offlineFinish \/ ~online)
  /\ UNCHANGED <<mounted, isRunning, isPaused, startTimeRef, pausedTimeRef,
                 updateIntervalRef, timers, screenStats>>
  /\ UNCHANGED <<online, platform, qrest, now, available, runs, taps, delivered,
                 activeTime, pauseCalled>>
  /\ UNCHANGED gap

\* one visit of the screen, the provider staying as it is
EarlierNext ==
  \/ Tick
  \/ GoOnline
  \/ GoOffline
  \/ ToggleStart
  \/ \E ok \in BOOLEAN : StartResolved(ok)
  \/ EarlierTogglePause
  \/ EarlierToggleResume
  \/ \E ok \in BOOLEAN : ResumeResolved(ok)
  \/ \E loc \in Samples : Deliver(loc)
  \/ EarlierIntervalFire
  \/ EarlierBack
  \/ EarlierFinishAndSave
  \/ \E ok \in BOOLEAN : InsertDone(ok)

Init == QInit /\ RInit

\* the offline queue, with the run screen at rest
Spec == Init /\ [][QNext]_vars
SpecAllFail == Init /\ [][QNextAllFail]_vars
\* a run on the active-run screen of a fresh install, with the offline queue at rest
\* the event loop runs every callback that is due: a resolved promise is continued,
\* a live interval fires, the root layout calls initialize; connectivity changes and
\* enqueueing are up to the environment
QFairness ==
  /\ WF_vars(InitializeStart)
  /\ WF_vars(InitializeLoaded)
  /\ WF_vars(TimerFire)
  /\ WF_vars(AddToQueueResume)
  /\ WF_vars(OnlineChecked(FALSE))
  /\ \A p \in Passes : WF_vars(\E ok \in BOOLEAN : ExecDone(p, ok, FALSE))
  /\ \A p \in Passes : WF_vars(SaveDone(p))
SpecLive == Init /\ [][QNext]_vars /\ QFairness

\* the queue with its diagnostics call clearQueue
ClearNext ==
  \/ QNext
  \/ ClearQueueCall
  \/ ClearQueueDone
SpecClear == Init /\ [][ClearNext]_vars
RunInit == Init /\ stored = NoValue
SpecRun == RunInit /\ [][RNext]_vars
\* the samples of the statistics scenario: steps of 0, 1, 49, 50, 200, 249 and 250 m,
\* device speeds of 1 m/s and 9 m/s or none, TickSeconds apart
StatPositions == {0, 1, 50, 250}
StatGpsSpeeds == {Null, 100, 900}

\* the callback of a live subscription (part_005 203-219), TickSeconds after the last
\* event, with a sample at position p, of device speed s and altitude a:
\* updateRunStats(loc), then statsCallback (activeRun.tsx 1046)
FeedAt(p, s, a) ==
  /\ watching \/ leaked > 0
  /\ delivered < MaxFeeds
  /\ delivered' = delivered + 1
  /\ now' = now + TickSeconds
  /\ activeTime' = activeTime + TickSeconds
  /\ LET loc == [has |-> TRUE, pos |-> p, speed |-> s, altitude |-> a,
                 timestamp |-> now']
     IN /\ coordinates' = Append(coordinates, loc)
        /\ runStats' = UpdateRunStats(runStats, speedHistory, lastLocation, startTime,
                                      isTracking, loc, now')
        /\ speedHistory' = UpdateSpeedHistory(speedHistory, lastLocation, isTracking, loc)
        /\ lastLocation' = loc
  /\ screenStats' = IF mounted THEN runStats' ELSE screenStats
  /\ UNCHANGED <<online, platform, qrest, available, watching, leaked, starting, resuming,
                 isTracking, startTime, mounted, isRunning, isPaused, startTimeRef,
                 pausedTimeRef, updateIntervalRef, timers, saving, runs, taps,
                 pauseCalled, stopCalled, offlineFinish>>
  /\ gap' = GapAfter([has |-> TRUE, pos |-> p, speed |-> s, altitude |-> a,
                     timestamp |-> now'])

\* a sample of a device that reports no altitude
Feed(p, s) == FeedAt(p, s, Null)

\* one session from its start on, fed with samples
StatsNext ==
  \/ ToggleStart
  \/ \E ok \in BOOLEAN : StartResolved(ok)
  \/ \E p \in StatPositions, s \in StatGpsSpeeds : Feed(p, s)

SpecStats == RunInit /\ [][StatsNext]_vars

\* the altitudes of the elevation scenario, in metres: none, sea level, and climbs of
\* 5, 7 and 12 m between them
ClimbAltitudes == {Null, 0, 5, 12}

\* one session from its start on, fed with samples that carry an altitude
ClimbNext ==
  \/ ToggleStart
  \/ \E ok \in BOOLEAN : StartResolved(ok)
  \/ \E p \in Positions, a \in ClimbAltitudes : FeedAt(p, Null, a)

SpecClimb == RunInit /\ [][ClimbNext]_vars

\* one session with its pauses and resumes, fed with samples
ResumeNext ==
  \/ ToggleStart
  \/ \E ok \in BOOLEAN : StartResolved(ok)
  \/ TogglePause
  \/ ToggleResume
  \/ \E ok \in BOOLEAN : ResumeResolved(ok)
  \/ \E p \in StatPositions : Feed(p, Null)

SpecResume == RunInit /\ [][ResumeNext]_vars

\* more than 24 hours pass (the run is left open, the device asleep)
DayPasses ==
  /\ now <= MaxTime
  /\ now' = now + MaxDuration + TickSeconds
  /\ activeTime' = IF SessionState = "Paused" THEN activeTime
                   ELSE activeTime + MaxDuration + TickSeconds
  /\ UNCHANGED <<online, platform, qrest, available, svars, uvars, taps, delivered,
                 pauseCalled, stopCalled, offlineFinish, gap>>

\* one session that is left open for more than a day
DayNext ==
  \/ Tick
  \/ DayPasses
  \/ ToggleStart
  \/ \E ok \in BOOLEAN : StartResolved(ok)
  \/ \E loc \in Samples : Deliver(loc)
  \/ IntervalFire

SpecDay == RunInit /\ [][DayNext]_vars

\* sample i of a steady run of 49 m every TickSeconds, to and fro between two marks
WarmSample(i) ==
  [has |-> TRUE, pos |-> IF i % 2 = 0 THEN 1 ELSE 50, speed |-> Null, altitude |-> Null,
   timestamp |-> 1 + i * TickSeconds]

\* the speed of that run: 49 m in TickSeconds, in thousandths of km/h
WarmSpeed == (49 * 3600) \div TickSeconds

\* the service's data after the first n >= 1 samples of that run, started at time 1:
\* every sample but the first has added 49 m and a reading of WarmSpeed
Warm(n) ==
  [stats |-> [distance |-> 49 * (n - 1),
              speed |-> IF n > 1 THEN WarmSpeed ELSE 0,
              maxSpeed |-> IF n > 1 THEN WarmSpeed ELSE 0,
              avgSpeed |-> IF n > 1 THEN WarmSpeed ELSE 0,
              elevationGain |-> 0,
              duration |-> n * TickSeconds,
              pace |-> PaceOf(IF n > 1 THEN WarmSpeed ELSE 0),
              calories |-> Round(49 * (n - 1) * CaloriesPerKm, 1000)],
   history |-> [i \in 1..(n - 1) |-> WarmSpeed],
   last |-> WarmSample(n),
   coords |-> [i \in 1..n |-> WarmSample(i)]]

\* a run on a screen opened at time 1 and started at once, after HistoryLen samples:
\* the speed history holds HistoryLen - 1 readings (delivered counts the samples that
\* follow)
HistoryInit ==
  /\ QInit
  /\ stored = NoValue
  /\ now = 1 + HistoryLen * TickSeconds
  /\ available = TRUE
  /\ watching = TRUE
  /\ leaked = 0
  /\ starting = 0
  /\ resuming = 0
  /\ isTracking = TRUE
  /\ lastLocation = Warm(HistoryLen).last
  /\ startTime = 1
  /\ runStats = Warm(HistoryLen).stats
  /\ coordinates = Warm(HistoryLen).coords
  /\ speedHistory = Warm(HistoryLen).history
  /\ mounted = TRUE
  /\ isRunning = TRUE
  /\ isPaused = FALSE
  /\ startTimeRef = 1
  /\ pausedTimeRef = 0
  /\ updateIntervalRef = "duration"
  /\ timers = [duration |-> 1, pause |-> 0]
  /\ screenStats = Warm(HistoryLen).stats
  /\ saving = <<>>
  /\ runs = <<>>
  /\ taps = 1
  /\ delivered = 0
  /\ activeTime = HistoryLen * TickSeconds
  /\ pauseCalled = FALSE
  /\ stopCalled = FALSE
  /\ offlineFinish = FALSE
  /\ gap = NoGap

\* the run goes on
HistoryNext == \E p \in StatPositions, s \in StatGpsSpeeds : Feed(p, s)

SpecHistory == HistoryInit /\ [][HistoryNext]_vars

\* the same with the earlier screen of the file
SpecRunEarlier == RunInit /\ [][EarlierNext]_vars

(***************************************************************************)
(* Properties of the offline queue.                                        *)
(***************************************************************************)
Last(s) == s[Len(s)]
OkIds(l) == {l[i].id : i \in {j \in 1..Len(l) : l[j].result = "ok"}}

\* C1: at no time are two processQueue passes under way (between setting the
\* processing flag and clearing it), so no two passes execute actions concurrently.
C1_NoOverlappingPasses == Cardinality(Running(pass)) <= 1

\* C2: within one pass the actions are executed in enqueue order (the order of
\* the queue array, ids ascending), none is skipped, and every attempt but the
\* pass's last one has succeeded: after a failed execution the pass attempts
\* nothing more.
C2_InOrderStopAtFailure ==
  \A p \in Running(pass) :
    LET l == pass[p].log
    IN /\ Len(l) = pass[p].idx
       /\ \A i \in 1..(Len(l) - 1) : l[i].result = "ok" /\ l[i].id < l[i + 1].id
       /\ pass[p].pc = "executing" =>
            /\ Last(l).result = "pending"
            /\ \A i \in 1..Len(l) : l[i].id = objs[ArrayOf(p)[i]].id
       /\ pass[p].pc = "saving" /\ l # <<>> => Last(l).result \in {"ok", "fail"}

\* a pass has ended on the failure of its first item while a later item is queued
C2_Witness ==
  \E p \in Passes :
    /\ pass[p].pc = "saving"
    /\ Len(pass[p].log) = 1
    /\ pass[p].log[1].result = "fail"
    /\ \E i \in 1..Len(queue) : objs[queue[i]].id > pass[p].log[1].id

\* C3: when every execution attempt fails, no item is executed a 4th time.
C3_NoFourthAttempt == \A i \in Ids : attempts[i] <= MaxRetries

\* the step in which the execution pass p awaits is rejected
FailStep(p) ==
  /\ pass[p].pc = "executing"
  /\ pass'[p].log[pass[p].idx].result = "fail"
FailedId(p) == objs[ArrayOf(p)[pass[p].idx]].id
RaisedToMax(p) == objs[ArrayOf(p)[pass[p].idx]].retryCount + 1 >= MaxRetries
GoneAfter(id) == id \notin IdsOf(queue, objs)' /\ id \notin StoredIds'

C5_LeavesOnlyWhenDone ==
  [][\A id \in Ids :
       \/ id \in IdsOf(queue, objs) /\ id \notin IdsOf(queue, objs)'
       \/ id \in StoredIds /\ id \notin StoredIds'
       => \E p \in Passes :
            /\ pass[p].pc = "executing"
            /\ pass'[p].pc = "saving"
            /\ id \in OkIds(pass'[p].log) \cup pass'[p].failedItems]_qvars

\* no operation of the queue is in flight
Quiescent ==
  initPc = "done" /\ pendingAdd = 0 /\ awaiting = 0 /\ Running(pass) = {}

\* C6: whenever no queue operation is in flight the persisted queue equals the
\* in-memory queue: same items, same order, same retryCount.
C6_StoredEqualsMemory ==
  Quiescent => stored.items = Serialize(queue, objs).items

(***************************************************************************)
(* Properties of a run on the active-run screen.                           *)
(***************************************************************************)
\* C7: a completed run is never lost to a connectivity gap: once saveRunAndFinish
\* has dealt with a run that was stopped while offline, the run has been handed to
\* the offline queue (as a save_run action) or is a row of the backend table.
C7_OfflineRunIsQueued ==
  (offlineFinish /\ saving = <<>>) =>
     (Len(queue) > 0 \/ pendingAdd > 0 \/ Len(runs) > 0)

\* C8: the recorded duration counts only the time the session was Active: neither the
\* service's duration, nor the one the screen shows, nor the one of a row being saved
\* exceeds the time that has passed outside of pauses since the start.
C8_DurationExcludesPauses ==
  /\ runStats.duration <= activeTime
  /\ screenStats.duration <= activeTime
  /\ \A i \in 1..Len(saving) : saving[i].duration <= activeTime
  /\ \A i \in 1..Len(runs) : runs[i].duration <= activeTime

\* C9: a position sample delivered while the session is not Active changes neither
\* the route, nor the previous-sample pointer, nor the statistics.
C9_InactiveSampleIsNoOp ==
  [][(delivered' # delivered /\ ~isTracking) =>
       /\ coordinates' = coordinates
       /\ lastLocation' = lastLocation
       /\ runStats' = runStats]_vars

Lifecycle ==
  {<<"Idle", "Active">>, <<"Active", "Paused">>, <<"Paused", "Active">>,
   <<"Active", "Stopped">>, <<"Paused", "Stopped">>}

\* C10: the session state changes only along Idle -> Active -> Paused -> Active ->
\* Stopped (and Paused -> Stopped), and once the session is Stopped neither its
\* state, nor its statistics, nor its route change any more.
C10_LifecycleOrder ==
  [][/\ SessionState' # SessionState => <<SessionState, SessionState'>> \in Lifecycle
     /\ SessionState = "Stopped" =>
          /\ SessionState' = "Stopped"
          /\ runStats' = runStats
          /\ coordinates' = coordinates]_vars

\* a step of toggleRunning that calls pauseTracking / resumeTracking
PauseCall == taps' # taps /\ isRunning /\ ~isPaused
ResumeCall == taps' # taps /\ ~isRunning /\ isPaused

\* C11: an invalid transition is a no-op: pause() called when the session is not
\* Active and resume() called when it is not Paused leave the session state, the
\* statistics, the route and the location subscriptions unchanged.
C11_InvalidTransitionIsNoOp ==
  [][(\/ PauseCall /\ SessionState # "Active"
      \/ ResumeCall /\ SessionState # "Paused") =>
       /\ SessionState' = SessionState
       /\ runStats' = runStats
       /\ coordinates' = coordinates
       /\ <<watching, leaked>>' = <<watching, leaked>>]_vars

\* C12: stop() on a session that was never started leaves a zero-valued record and an
\* empty route to read, also in a session opened after an earlier run of the same
\* locationService.
C12_IdleStopIsZero ==
  [][(mounted /\ ~mounted' /\ startTimeRef = Null /\ SessionState = "Idle") =>
       /\ runStats' = ZeroStats
       /\ coordinates' = <<>>]_vars

\* C13: a run whose final duration is below 10 seconds or whose final distance is
\* below 0.01 km is never written to the backend: no row handed to the insert, and
\* no row of the table, is below either threshold.
C13_ShortRunNeverSaved ==
  /\ \A i \in 1..Len(saving) :
       saving[i].distance >= MinSaveDistance /\ saving[i].duration >= MinSaveDuration
  /\ \A i \in 1..Len(runs) :
       runs[i].distance >= MinSaveDistance /\ runs[i].duration >= MinSaveDuration

\* C14: the insert into 'runs' is issued only after stopTracking has returned, and the
\* row handed to it, which is the row that reaches the table, holds the statistics and
\* the route as they were when stopTracking returned.
C14_InsertAfterStop ==
  [][/\ Len(saving') > Len(saving) =>
          /\ ~isTracking'
          /\ saving' = Append(saving, [distance |-> runStats'.distance,
                                       duration |-> runStats'.duration,
                                       route_coordinates |-> coordinates'])
          /\ runStats' = runStats
          /\ coordinates' = coordinates
     /\ runs' # runs => Len(saving) > 0 /\ runs' = Append(runs, Head(saving))]_vars

\* a run has been written after its session was stopped
C14_Witness ==
  /\ Len(runs) > 0
  /\ ~isTracking
  /\ stopCalled

\* C15: while items remain queued and the device stays online, a processQueue pass is
\* eventually started, on web as on native, also for the items initialize loaded from
\* storage: from every state with a monitored, non-empty queue and connectivity, a
\* state is reached where a pass is under way (or the device is offline, or the queue
\* is empty).
C15_QueuedItemsGetAPass ==
  (online /\ Len(queue) > 0 /\ initPc = "done")
    ~> (Running(pass) # {} \/ ~online \/ Len(queue) = 0)

\* C16: after a pause or a stop no duration-refresh timer remains scheduled: at most one
\* interval timer of the screen is alive at any time, and none that advances the
\* displayed duration is alive while the session is Paused or Stopped.
C16_NoTimerAfterPauseOrStop ==
  /\ timers.duration + timers.pause <= 1
  /\ SessionState \in {"Paused", "Stopped"} => timers.duration = 0

\* the instantaneous speed of the update that has just been made, and its step
StepOfUpdate == GetDistance(lastLocation, lastLocation')
SpeedOfUpdate == CurrentSpeed(isTracking, lastLocation, lastLocation', StepOfUpdate)
UpdateWithPrevious == delivered' # delivered /\ lastLocation.has

\* C17: maxSpeed is at least the current speed in every state after the first sample,
\* and maxSpeed never decreases from one update to the next.
C17_MaxSpeedDominates ==
  [][delivered' # delivered =>
       /\ runStats'.maxSpeed >= runStats'.speed
       /\ runStats'.maxSpeed >= runStats.maxSpeed]_vars

\* a later, slower sample has left the maximum above the current speed
C17_Witness ==
  /\ delivered >= 2
  /\ runStats.speed > 0
  /\ runStats.maxSpeed > runStats.speed

\* C19: on an update of an Active session that has a previous sample, the step between
\* the two samples is added to the distance if and only if it is at least 1 m and at
\* most 50 m, both bounds included; any other step leaves the distance unchanged.
C19_DistanceStepBounds ==
  [][UpdateWithPrevious /\ isTracking =>
       runStats'.distance - runStats.distance =
         (IF StepOfUpdate >= 1 /\ StepOfUpdate <= 50 THEN StepOfUpdate ELSE 0)]_vars

\* C20: after every update that has a previous sample the current speed is the
\* instantaneous speed of that update when it is below 30 km/h and is 0 when it is
\* 30 km/h or more; it is never the value an earlier update left.
C20_CurrentSpeedIsFresh ==
  [][UpdateWithPrevious =>
       runStats'.speed = (IF SpeedOfUpdate < SpeedLimit THEN SpeedOfUpdate ELSE 0)]_vars

\* a startTracking call returns: at once on web, after its await on native
StartReturns ==
  \/ taps' # taps /\ ~isRunning /\ ~isPaused /\ ~isTracking /\ platform = "web"
  \/ starting' < starting

\* C18: a startTracking call made while the permission is not granted or the provider
\* is unavailable returns false: when it returns, no location subscription exists, the
\* service is not tracking and the screen has not entered its running state.
C18_FailedStartLeavesIdle ==
  [][StartReturns /\ ~available =>
       /\ ~watching'
       /\ leaked' = 0
       /\ ~isTracking'
       /\ ~isRunning']_vars

\* C21: on an update of an Active session, if the previous and the current sample both
\* carry an altitude (any number, 0 included) and the current one is higher by d with
\* 0 < d < 10 m, elevationGain grows by exactly d; otherwise it is unchanged.
C21_ElevationGain ==
  [][UpdateWithPrevious /\ isTracking =>
       runStats'.elevationGain - runStats.elevationGain =
         (IF /\ lastLocation.altitude # Null
             /\ lastLocation'.altitude # Null
             /\ lastLocation'.altitude - lastLocation.altitude > 0
             /\ lastLocation'.altitude - lastLocation.altitude < 10
            THEN lastLocation'.altitude - lastLocation.altitude
            ELSE 0)]_vars

\* the sample just applied is the first one applied since the session was resumed, and
\* the previous-sample pointer is still the sample taken before the pause
FirstAfterResume == gap'.to.has /\ ~gap.to.has

C22_CaloriesFromDistance ==
  [][delivered' # delivered =>
       runStats'.calories = (2 * 65 * runStats'.distance + 1000) \div 2000]_vars

\* C23: the duration of the statistics never exceeds 86400 seconds, in the snapshot the
\* location service keeps and in the snapshot the screen displays, which the screen's
\* duration interval also writes.
C23_DurationCapped ==
  /\ runStats.duration <= 86400
  /\ screenStats.duration <= 86400

\* C24: the speed history never holds more than 50 entries, it holds the most recent
\* accepted speeds above 0.5 km/h in arrival order (an update appends its speed when
\* that is accepted and above 0.5 km/h and drops the oldest entries beyond 50, and
\* changes nothing otherwise), and whenever it is non-empty avgSpeed is the arithmetic
\* mean of its entries.
C24_SpeedHistory ==
  [][UpdateWithPrevious =>
       LET v == SpeedOfUpdate
           a == Append(speedHistory, v)
       IN /\ Len(speedHistory') <= 50
          /\ speedHistory' = IF v < 30000 /\ v > 500
                               THEN IF Len(a) > 50 THEN SubSeq(a, Len(a) - 49, Len(a))
                                                   ELSE a
                               ELSE speedHistory
          /\ Len(speedHistory') > 0 =>
               runStats'.avgSpeed = Sum(speedHistory') \div Len(speedHistory')]_vars

\* the history is full and its oldest readings have been dropped for newer ones
C24_Witness ==
  /\ Len(speedHistory) = 50
  /\ delivered = 3
  /\ speedHistory[48] # speedHistory[1]

\* the calls of the service made by a step
StartCall == taps' # taps /\ ~isRunning /\ ~isPaused
StopCall == (mounted /\ ~mounted') \/ Len(saving') > Len(saving)
DataLost ==
  \/ runStats'.distance < runStats.distance
  \/ runStats'.maxSpeed < runStats.maxSpeed
  \/ runStats'.elevationGain < runStats.elevationGain
  \/ runStats'.calories < runStats.calories
  \/ Len(coordinates') < Len(coordinates)
  \/ Len(speedHistory') < Len(speedHistory)

\* C25: the statistics are reset exactly when a new run starts and never mid-run:
\* startTracking called on a service that is not tracking zeroes every field and clears
\* the route, the speed history and the previous-sample pointer; pauseTracking,
\* resumeTracking and stopTracking leave distance, maxSpeed, avgSpeed, elevationGain,
\* calories, the route and the speed history unchanged; and nothing is lost in any
\* other step, nor while the session is Active or Paused.
C25_ResetOnlyAtStart ==
  [][/\ StartCall /\ ~isTracking =>
          /\ runStats'.distance = 0 /\ runStats'.speed = 0 /\ runStats'.maxSpeed = 0
          /\ runStats'.avgSpeed = 0 /\ runStats'.elevationGain = 0
          /\ runStats'.duration = 0 /\ runStats'.calories = 0
          /\ runStats'.pace = [minutes |-> 0, seconds |-> 0]
          /\ coordinates' = <<>>
          /\ speedHistory' = <<>>
          /\ ~lastLocation'.has
     /\ PauseCall \/ ResumeCall \/ resuming' < resuming \/ StopCall =>
          /\ runStats'.distance = runStats.distance
          /\ runStats'.maxSpeed = runStats.maxSpeed
          /\ runStats'.avgSpeed = runStats.avgSpeed
          /\ runStats'.elevationGain = runStats.elevationGain
          /\ runStats'.calories = runStats.calories
          /\ coordinates' = coordinates
          /\ speedHistory' = speedHistory
     /\ DataLost => StartCall /\ SessionState \notin {"Active", "Paused"}]_vars

\* a new run has been started after samples had been recorded, and its data is empty
C25_Witness ==
  /\ delivered > 0
  /\ isTracking
  /\ coordinates = <<>>
  /\ runStats.distance = 0

\* the number of location subscriptions that are alive
Alive == (IF watching THEN 1 ELSE 0) + leaked

\* C27: for every interleaving of the start, resume, pause and stop calls, at most one
\* location subscription is alive at any time, and once stopTracking has returned and
\* every pending call has completed no subscription is alive.
C27_AtMostOneSubscription ==
  /\ Alive <= 1
  /\ stopCalled /\ starting = 0 /\ resuming = 0 => Alive = 0

\* C26: a processQueue call that finds the device offline executes no action and leaves
\* the queue, every retryCount, the persisted queue and the processing flag unchanged.
C26_OfflineCallIsNoOp ==
  [][awaiting' < awaiting /\ ~online =>
       /\ queue' = queue
       /\ objs' = objs
       /\ stored' = stored
       /\ isProcessing' = isProcessing
       /\ pass' = pass]_vars

\* the only item ever enqueued is still queued and untried, its write has resolved and
\* every processQueue call made for it has returned: they all found the device offline
C26_Witness ==
  /\ ~online
  /\ initPc = "done"
  /\ nextId = 2
  /\ Len(queue) = 1
  /\ objs[queue[1]].retryCount = 0
  /\ pendingAdd = 0
  /\ awaiting = 0
  /\ ~isProcessing
  /\ Running(pass) = {}

\* C28: once clearQueue() has returned, no action that was queued before the clear is
\* executed against the backend afterwards, also when a processQueue pass was in
\* progress at the time of the clear: no pass starts an execution of such an item.
C28_ClearedItemsNeverRun ==
  [][\A p \in Passes :
       Len(pass'[p].log) > Len(pass[p].log) =>
         pass'[p].log[Len(pass'[p].log)].id \notin cleared.ids]_vars

\* C29: every processQueue pass that sets the processing flag eventually clears it,
\* whatever actions fail or throw during the pass: a pass under way leads to a state
\* where that pass has returned with the flag cleared, and a set flag leads to a
\* cleared one, so a new pass can start.
C29_FlagEventuallyCleared ==
  /\ \A p \in Passes : (pass[p].pc # "idle") ~> (pass[p].pc = "idle" /\ ~isProcessing)
  /\ isProcessing ~> ~isProcessing

\* no pass is under way and the flag is cleared, after an execution has failed in a
\* pass of this session (an action added in this session has a retry count)
C29_Witness ==
  /\ ~isProcessing
  /\ Running(pass) = {}
  /\ \E i \in 1..Len(queue) :
       objs[queue[i]].id > MaxPrior /\ objs[queue[i]].retryCount > 0

====
